---- MODULE Spec2Model ----
(***************************************************************************)
(* Model of src/raw.rs of rls-analysis: the incremental loader             *)
(* Analysis::read_incremental / Analysis::read / Analysis::read_crate_data *)
(* and the namespace classifier DefKind::name_space.                       *)
(*                                                                         *)
(* A root directory is a number in 1..NumRoots, a file name is its         *)
(* position in the directory, a path is the pair <<root, name>>, and a     *)
(* SystemTime is a number in 1..MaxTime.  read_incremental is synchronous  *)
(* and keeps no state between calls, so one call is one action; the for    *)
(* loop and iter_paths are the recursive operators ForFiles and IterPaths. *)
(***************************************************************************)
EXTENDS Integers, Sequences, FiniteSets, TLC

\* ---------------------------------------------------------------- bounds
NumRoots == 2
MaxEntries == 2
MaxTime == 2
MaxDefs == 2

Roots == 1..NumRoots
Times == 1..MaxTime

\* ---------------------------------------------------------------- state
VARIABLES
    fs,          \* root -> outcome of DirectoryListing::from_path
    contents,    \* path of a file entry -> what File::open/read/decode meet
    timestamps,  \* the HashMap<PathBuf, Option<SystemTime>> argument
    api,         \* entry point: "read" or "read_incremental"
    pc,          \* "ready" | "done" | "panicked" | "idle"
    crates,      \* the Vec<Crate> the call returned
    reads,       \* paths read_crate_data was called on, in order
    call,        \* 1: first call, 2: the call after the caller's update
    first,       \* the Vec<Crate> the first call returned
    defs,        \* kinds of the definitions handed to name_space
    di,          \* next definition to classify
    spaces,      \* name_space's return values so far
    nsPc         \* "run" | "done" | "panicked" | "idle"

vars == <<fs, contents, timestamps, api, pc, crates, reads, call, first,
          defs, di, spaces, nsPc>>

loaderVars == <<fs, contents, timestamps, api, pc, crates, reads, call, first>>
nsVars == <<defs, di, spaces, nsPc>>

\* ---------------------------------------------------------------- values
None == [some |-> FALSE]
Some(x) == [some |-> TRUE, v |-> x]

Directory == [tag |-> "Directory"]
File(t) == [tag |-> "File", time |-> t]
ListingKinds == {Directory} \cup {File(t) : t \in Times}

Contents == {"unreadable", "malformed", "json"}

\* A listing of n entries: the entry at position k is named k.
ListingsOfLen(n) ==
    {[k \in 1..n |-> [name |-> k, kind |-> ks[k]]] : ks \in [1..n -> ListingKinds]}

ListingOk(files) == [ok |-> TRUE, files |-> files]
ListingErr == [ok |-> FALSE]

ListingResults ==
    {ListingErr} \cup
    UNION {{ListingOk(l) : l \in ListingsOfLen(n)} : n \in 0..MaxEntries}

NumEntries(f, r) == IF f[r].ok THEN Len(f[r].files) ELSE 0

RECURSIVE TotalEntries(_, _)
TotalEntries(f, r) ==
    IF r = 0 THEN 0 ELSE NumEntries(f, r) + TotalEntries(f, r - 1)

\* path.to_path_buf(); path.push(&l.name)
Join(p, name) == <<p, name>>

FilePaths(f) ==
    {Join(r, f[r].files[k].name) :
        <<r, k>> \in {rk \in Roots \X (1..MaxEntries) :
                        /\ f[rk[1]].ok
                        /\ rk[2] <= Len(f[rk[1]].files)
                        /\ f[rk[1]].files[rk[2]].kind.tag = "File"}}

\* ---------------------------------------------------------------- helpers
\* What json::decode produces from a well-formed artifact.
DecodedAnalysis == [kind |-> "Json"]

\* Crate::new
CrateNew(analysis, timestamp, path) ==
    [analysis |-> analysis, timestamp |-> timestamp, path |-> path]

\* HashMap::get: Some(&Some(t)), Some(&None) or None
Get(map, path) == IF path \in DOMAIN map THEN Some(map[path]) ELSE None

\* mutants of the guard: the comparison inverted, and made non-strict
IsOlder(time, t) == time < t
IsNewerOrEqual(time, t) == time >= t

\* the guard `time > t` of the Some(&Some(ref t)) arm
IsNewer(time, t) == time > t

\* mutant of the decode: a failure is replaced by a default Analysis
DecodeOrDefault(buf) == Some(DecodedAnalysis)

\* json::decode(&buf).ok()
Decode(buf) == IF buf = "json" THEN Some(DecodedAnalysis) ELSE None

\* read_crate_data: File::open(..).unwrap() and read_to_string(..).unwrap()
\* panic on an unreadable artifact; otherwise the decode's Option is returned.
ReadCrateData(path) ==
    IF contents[path] = "unreadable"
    THEN [panic |-> TRUE]
    ELSE [panic |-> FALSE, value |-> Decode(contents[path])]

\* DirectoryListing::from_path
FromPath(p) == fs[p]

\* The progress of one visit: acc.result is the closure's `result` vector,
\* acc.reads the read_crate_data calls so far, acc.panic whether an unwrap failed.
Progress(panic, result, rd) == [panic |-> panic, result |-> result, reads |-> rd]

\* Self::read_crate_data(&path).map(|a| result.push(Crate::new(a, time.clone(), path)))
LoadCrate(acc, path, time) ==
    LET r == ReadCrateData(path) IN
    IF r.panic
    THEN Progress(TRUE, acc.result, Append(acc.reads, path))
    ELSE Progress(FALSE,
                  IF r.value.some
                  THEN Append(acc.result, CrateNew(r.value.v, time, path))
                  ELSE acc.result,
                  Append(acc.reads, path))

\* mutant: the Crate is stamped with the known timestamp `t`, not with `time`
KnownTimestampKeepsKnown(acc, path, time, t) ==
    IF IsNewer(time, t) THEN LoadCrate(acc, path, t) ELSE acc

\* Some(&Some(ref t)) => { if time > t { load } }
KnownTimestamp(acc, path, time, t) ==
    IF IsNewer(time, t) THEN LoadCrate(acc, path, time) ELSE acc

\* mutant: the Some(&None) arm loads like the None arm
NeverRefreshLoads(acc, path, time) == LoadCrate(acc, path, time)

\* Some(&None) => {}
NeverRefresh(acc, path, time) == acc

\* mutant: the None arm is empty like the Some(&None) arm
NeverSeenSkips(acc, path, time) == acc

\* None => { load }
NeverSeen(acc, path, time) == LoadCrate(acc, path, time)

\* the body of `for l in listing.files`
ConsiderEntry(acc, p, l) ==
    IF l.kind.tag = "File"
    THEN LET time == l.kind.time
             path == Join(p, l.name)
             got == Get(timestamps, path)
         IN IF got.some
            THEN IF got.v.some
                 THEN KnownTimestamp(acc, path, time, got.v.v)
                 ELSE NeverRefresh(acc, path, time)
            ELSE NeverSeen(acc, path, time)
    ELSE acc

\* `for l in listing.files`, entries 1..k; a panic ends the loop
RECURSIVE ForFiles(_, _, _, _)
ForFiles(acc, p, files, k) ==
    IF k = 0 THEN acc
    ELSE LET prev == ForFiles(acc, p, files, k - 1) IN
         IF prev.panic THEN prev ELSE ConsiderEntry(prev, p, files[k])

\* mutant: the listing is unwrapped, a listing failure panics
VisitorUnwraps(p, rd) ==
    LET listing == FromPath(p) IN
    IF listing.ok
    THEN ForFiles(Progress(FALSE, <<>>, rd), p, listing.files, Len(listing.files))
    ELSE Progress(TRUE, <<>>, rd)

\* the closure |p| { ... } handed to iter_paths
Visitor(p, rd) ==
    LET listing == FromPath(p) IN
    IF listing.ok
    THEN ForFiles(Progress(FALSE, <<>>, rd), p, listing.files, Len(listing.files))
    ELSE Progress(FALSE, <<>>, rd)

\* iter_paths: the visitor is invoked once per root, roots 1..r in order, and
\* its return values are concatenated; a panic of the visitor unwinds through it
RECURSIVE IterPaths(_)
IterPaths(r) ==
    IF r = 0 THEN Progress(FALSE, <<>>, <<>>)
    ELSE LET prev == IterPaths(r - 1) IN
         IF prev.panic THEN prev
         ELSE LET v == Visitor(r, prev.reads) IN
              Progress(v.panic, prev.result \o v.result, v.reads)

\* ---------------------------------------------------------------- Init
FileSystems ==
    {f \in [Roots -> ListingResults] : TotalEntries(f, NumRoots) <= MaxEntries}

TimestampMaps(paths) ==
    UNION {[keys -> {None} \cup {Some(t) : t \in Times}] : keys \in SUBSET paths}

NsIdle ==
    /\ defs = <<>>
    /\ di = 1
    /\ spaces = <<>>
    /\ nsPc = "idle"

Init ==
    /\ fs \in FileSystems
    /\ contents \in [FilePaths(fs) -> Contents]
    /\ api \in {"read", "read_incremental"}
    \* Analysis::read passes HashMap::new()
    /\ timestamps \in IF api = "read" THEN {<<>>} ELSE TimestampMaps(FilePaths(fs))
    /\ pc = "ready"
    /\ crates = <<>>
    /\ reads = <<>>
    /\ call = 1
    /\ first = <<>>
    /\ NsIdle

\* ---------------------------------------------------------------- actions
\* Analysis::read_incremental(loader, timestamps)
ReadIncremental ==
    /\ pc = "ready"
    /\ api = "read_incremental"
    /\ \E out \in {IterPaths(NumRoots)} :
       /\ pc' = IF out.panic THEN "panicked" ELSE "done"
       /\ crates' = IF out.panic THEN <<>> ELSE out.result
       /\ reads' = out.reads
    /\ UNCHANGED <<fs, contents, timestamps, api, call, first>>
    /\ UNCHANGED nsVars

\* Analysis::read(loader): read_incremental with the empty map
Read ==
    /\ pc = "ready"
    /\ api = "read"
    /\ timestamps = <<>>
    /\ \E out \in {IterPaths(NumRoots)} :
       /\ pc' = IF out.panic THEN "panicked" ELSE "done"
       /\ crates' = IF out.panic THEN <<>> ELSE out.result
       /\ reads' = out.reads
    /\ UNCHANGED <<fs, contents, timestamps, api, call, first>>
    /\ UNCHANGED nsVars

Next ==
    \/ ReadIncremental
    \/ Read

Spec == Init /\ [][Next]_vars

\* ---------------------------------------------------------------- two calls
\* The caller's update between two calls: HashMap::insert of Some(timestamp)
\* for the path of every returned Crate.
RECURSIVE Updated(_, _, _)
Updated(map, units, n) ==
    IF n = 0 THEN map
    ELSE LET m == Updated(map, units, n - 1)
             u == units[n]
         IN [p \in DOMAIN m \cup {u.path} |->
                IF p = u.path THEN Some(u.timestamp) ELSE m[p]]

\* Between the calls the caller records every returned Crate in the map.
UpdateTimestamps ==
    /\ pc = "done"
    /\ call = 1
    /\ timestamps' = Updated(timestamps, crates, Len(crates))
    /\ first' = crates
    /\ call' = 2
    /\ api' = "read_incremental"
    /\ pc' = "ready"
    /\ crates' = <<>>
    /\ reads' = <<>>
    /\ UNCHANGED <<fs, contents>>
    /\ UNCHANGED nsVars

NextTwice ==
    \/ ReadIncremental
    \/ Read
    \/ UpdateTimestamps

SpecTwice == Init /\ [][NextTwice]_vars

\* ---------------------------------------------------------------- name_space
DefKinds ==
    {"Enum", "Tuple", "Struct", "Trait", "Function", "Method", "Macro", "Mod",
     "Type", "Local", "Static", "Const", "Field", "Import"}

\* mutant: Type moved from the first arm to the second
name_space_type_as_value(kind) ==
    CASE kind \in {"Enum", "Tuple", "Struct", "Trait"} ->
            [panic |-> FALSE, ch |-> "t"]
      [] kind \in {"Function", "Method", "Mod", "Local", "Static", "Const",
                   "Field", "Type"} ->
            [panic |-> FALSE, ch |-> "v"]
      [] kind = "Macro" -> [panic |-> FALSE, ch |-> "m"]
      [] kind = "Import" -> [panic |-> TRUE]

\* DefKind::name_space
name_space(kind) ==
    CASE kind \in {"Enum", "Tuple", "Struct", "Type", "Trait"} ->
            [panic |-> FALSE, ch |-> "t"]
      [] kind \in {"Function", "Method", "Mod", "Local", "Static", "Const",
                   "Field"} ->
            [panic |-> FALSE, ch |-> "v"]
      [] kind = "Macro" -> [panic |-> FALSE, ch |-> "m"]
      [] kind = "Import" -> [panic |-> TRUE]

LoaderIdle ==
    /\ fs = [r \in Roots |-> ListingErr]
    /\ contents = <<>>
    /\ timestamps = <<>>
    /\ api = "read"
    /\ pc = "idle"
    /\ crates = <<>>
    /\ reads = <<>>
    /\ call = 1
    /\ first = <<>>

InitNS ==
    /\ defs \in UNION {[1..n -> DefKinds] : n \in 1..MaxDefs}
    /\ di = 1
    /\ spaces = <<>>
    /\ nsPc = "run"
    /\ LoaderIdle

\* name_space is called on the kind of the next definition
Classify ==
    /\ nsPc = "run"
    /\ di <= Len(defs)
    /\ LET r == name_space(defs[di]) IN
       IF r.panic
       THEN /\ nsPc' = "panicked"
            /\ UNCHANGED <<di, spaces>>
       ELSE /\ spaces' = Append(spaces, r.ch)
            /\ di' = di + 1
            /\ nsPc' = "run"
    /\ UNCHANGED defs
    /\ UNCHANGED loaderVars

ClassifyDone ==
    /\ nsPc = "run"
    /\ di > Len(defs)
    /\ nsPc' = "done"
    /\ UNCHANGED <<defs, di, spaces>>
    /\ UNCHANGED loaderVars

NextNS ==
    \/ Classify
    \/ ClassifyDone

SpecNS == InitNS /\ [][NextNS]_vars

\* ---------------------------------------------------------------- vocabulary of the claims
\* The file entries of the listings: <<root, position>> of every entry tagged File.
FileEntries ==
    {e \in Roots \X (1..MaxEntries) :
        /\ fs[e[1]].ok
        /\ e[2] <= Len(fs[e[1]].files)
        /\ fs[e[1]].files[e[2]].kind.tag = "File"}

PathOf(e) == <<e[1], fs[e[1]].files[e[2]].name>>
ObservedAt(e) == fs[e[1]].files[e[2]].kind.time

IsNeverSeen(p) == p \notin DOMAIN timestamps
IsNeverRefresh(p) == p \in DOMAIN timestamps /\ ~timestamps[p].some
IsKnown(p) == p \in DOMAIN timestamps /\ timestamps[p].some
KnownAt(p) == timestamps[p].v

RequiresLoad(e) ==
    \/ IsNeverSeen(PathOf(e))
    \/ IsKnown(PathOf(e)) /\ ObservedAt(e) > KnownAt(PathOf(e))

\* number of Crates of a sequence that carry the path p
UnitsFor(units, p) == Cardinality({j \in 1..Len(units) : units[j].path = p})

\* read_incremental has returned `crates`
Returned == pc = "done" /\ call = 1

\* read_incremental has been called: it returned or it panicked
Called == pc \in {"done", "panicked"} /\ call = 1

\* ---------------------------------------------------------------- C1
\* C1 as stated: when the call returns, every file entry whose path is mapped to a
\* known timestamp T with observed time > T has exactly one Crate in the result.
C1_AsStated ==
    Returned =>
        \A e \in FileEntries :
            (IsKnown(PathOf(e)) /\ ObservedAt(e) > KnownAt(PathOf(e)))
                => UnitsFor(crates, PathOf(e)) = 1

\* C1 amended: the same, for the entries whose artifact decodes into an Analysis
\* (an artifact that does not decode yields no Crate).
C1_StaleDecodableLoadedOnce ==
    Returned =>
        \A e \in FileEntries :
            (/\ IsKnown(PathOf(e))
             /\ ObservedAt(e) > KnownAt(PathOf(e))
             /\ contents[PathOf(e)] = "json")
                => UnitsFor(crates, PathOf(e)) = 1

C1_Witness ==
    /\ Returned
    /\ \E e \in FileEntries :
          /\ IsKnown(PathOf(e))
          /\ ObservedAt(e) > KnownAt(PathOf(e))
          /\ contents[PathOf(e)] = "json"
          /\ UnitsFor(crates, PathOf(e)) = 1

\* ---------------------------------------------------------------- C2
\* C2: once the call is over (returned or panicked), a file entry whose path is
\* mapped to a known timestamp T with observed time <= T has no Crate, and
\* read_crate_data was not called on it.
C2_FreshNotLoadedNotRead ==
    Called =>
        \A e \in FileEntries :
            (IsKnown(PathOf(e)) /\ ObservedAt(e) <= KnownAt(PathOf(e)))
                => /\ \A j \in 1..Len(crates) : crates[j].path # PathOf(e)
                   /\ \A j \in 1..Len(reads) : reads[j] # PathOf(e)

\* the call returned although an up-to-date artifact (observed = known) is unreadable
C2_Witness ==
    /\ Returned
    /\ \E e \in FileEntries :
          /\ IsKnown(PathOf(e))
          /\ ObservedAt(e) = KnownAt(PathOf(e))
          /\ contents[PathOf(e)] = "unreadable"
    /\ Len(crates) > 0

\* ---------------------------------------------------------------- C3
\* C3: when the call returns, a file entry whose path is mapped to never-refresh
\* (Some(None)) has no Crate, whatever its observed time.
C3_NeverRefreshNotLoaded ==
    Returned =>
        \A e \in FileEntries :
            IsNeverRefresh(PathOf(e))
                => \A j \in 1..Len(crates) : crates[j].path # PathOf(e)

C3_Witness ==
    /\ Returned
    /\ \E e \in FileEntries :
          /\ IsNeverRefresh(PathOf(e))
          /\ ObservedAt(e) = MaxTime
          /\ contents[PathOf(e)] = "json"
    /\ Len(crates) > 0

\* ---------------------------------------------------------------- C4
\* C4 as stated: when the call returns, every file entry whose path is absent
\* from the map has exactly one Crate in the result.
C4_AsStated ==
    Returned =>
        \A e \in FileEntries :
            IsNeverSeen(PathOf(e)) => UnitsFor(crates, PathOf(e)) = 1

\* C4 amended: the same, for the entries whose artifact decodes into an Analysis.
C4_UnseenDecodableLoadedOnce ==
    Returned =>
        \A e \in FileEntries :
            (IsNeverSeen(PathOf(e)) /\ contents[PathOf(e)] = "json")
                => UnitsFor(crates, PathOf(e)) = 1

\* Analysis::read returned a Crate for each of two never-seen artifacts
C4_Witness ==
    /\ Returned
    /\ api = "read"
    /\ Len(crates) = MaxEntries
    /\ \A e \in FileEntries : IsNeverSeen(PathOf(e)) /\ contents[PathOf(e)] = "json"

\* ---------------------------------------------------------------- C5
LoadSet == {e \in FileEntries : RequiresLoad(e)}
DecodeFailures == {e \in LoadSet : contents[PathOf(e)] = "malformed"}

\* C5: when the call returns, the result holds as many Crates as there are
\* artifacts requiring load minus those among them that do not decode, and an
\* artifact that does not decode has no Crate.
C5_SizeIsLoadsMinusDecodeFailures ==
    Returned =>
        /\ Len(crates) = Cardinality(LoadSet) - Cardinality(DecodeFailures)
        /\ \A e \in DecodeFailures : UnitsFor(crates, PathOf(e)) = 0

\* a malformed artifact comes first in its root and a later sibling is loaded
C5_Witness ==
    /\ Returned
    /\ \E e \in DecodeFailures, g \in LoadSet :
          /\ e[1] = g[1]
          /\ e[2] < g[2]
          /\ UnitsFor(crates, PathOf(g)) = 1

\* ---------------------------------------------------------------- C6
\* C6: an unreadable artifact never aborts the call.
C6_UnreadableNeverAborts == pc # "panicked"

\* ---------------------------------------------------------------- C7
\* What one root contributes, from its own listing alone.
RECURSIVE Contribution(_, _)
Contribution(r, k) ==
    IF k = 0 THEN <<>>
    ELSE IF <<r, k>> \in LoadSet /\ contents[PathOf(<<r, k>>)] = "json"
         THEN Append(Contribution(r, k - 1),
                     [analysis |-> DecodedAnalysis,
                      timestamp |-> ObservedAt(<<r, k>>),
                      path |-> PathOf(<<r, k>>)])
         ELSE Contribution(r, k - 1)

RECURSIVE Expected(_)
Expected(r) ==
    IF r = 0 THEN <<>>
    ELSE Expected(r - 1) \o
         (IF fs[r].ok THEN Contribution(r, Len(fs[r].files)) ELSE <<>>)

\* C7: a listing failure is not fatal (the call panics only when an artifact
\* requiring load is unreadable), and when the call returns, a root whose listing
\* failed has contributed nothing and every other root what its own listing
\* determines.
C7_ListingFailureScopedToRoot ==
    /\ pc = "panicked" => \E e \in LoadSet : contents[PathOf(e)] = "unreadable"
    /\ Returned => crates = Expected(NumRoots)

\* the listing of an earlier root failed and a later root contributed a Crate
C7_Witness ==
    /\ Returned
    /\ \E r \in Roots, q \in Roots :
          /\ r < q
          /\ ~fs[r].ok
          /\ fs[q].ok
          /\ \E j \in 1..Len(crates) : crates[j].path[1] = q

\* ---------------------------------------------------------------- C8
TypeKinds == {"Enum", "Tuple", "Struct", "Type", "Trait"}
ValueKinds == {"Function", "Method", "Mod", "Local", "Static", "Const", "Field"}

\* C8: every value name_space returned is 't' for a type kind, 'v' for a value
\* kind, 'm' for Macro; every non-import kind gets a value; Import gets none and
\* ends in a panic.
C8_NameSpaceTable ==
    /\ \A k \in 1..Len(spaces) :
          /\ defs[k] \in TypeKinds => spaces[k] = "t"
          /\ defs[k] \in ValueKinds => spaces[k] = "v"
          /\ defs[k] = "Macro" => spaces[k] = "m"
          /\ defs[k] # "Import"
    /\ Len(spaces) = di - 1
    /\ nsPc = "panicked" => (di <= Len(defs) /\ defs[di] = "Import")
    /\ nsPc = "done" => Len(spaces) = Len(defs)

C8_Witness ==
    /\ nsPc = "panicked"
    /\ Len(spaces) = 1
    /\ defs[1] = "Type"
    /\ spaces[1] = "t"

\* ---------------------------------------------------------------- C9
\* C9: when the second call (updated map, same files) returns, every Crate of
\* its result is for a path that is still absent from the updated map.
C9_SecondCallOnlyNeverSeen ==
    (pc = "done" /\ call = 2) =>
        \A j \in 1..Len(crates) : IsNeverSeen(crates[j].path)

\* the first call loaded a Crate and skipped a malformed never-seen artifact
C9_Witness ==
    /\ pc = "done"
    /\ call = 2
    /\ Len(first) > 0
    /\ \E e \in FileEntries :
          IsNeverSeen(PathOf(e)) /\ contents[PathOf(e)] = "malformed"

\* ---------------------------------------------------------------- C10
\* C10: every Crate returned carries the path root/name and the observed time of a
\* File entry of a listing, and that path is the one whose state in the map
\* made the loader load it.
C10_CrateCarriesObservedTimeAndPath ==
    \A j \in 1..Len(crates) :
        \E e \in FileEntries :
            /\ crates[j].path = PathOf(e)
            /\ crates[j].timestamp = ObservedAt(e)
            /\ RequiresLoad(e)

\* a Crate whose timestamp differs from the timestamp known for its path
C10_Witness ==
    /\ Returned
    /\ \E j \in 1..Len(crates) :
          /\ IsKnown(crates[j].path)
          /\ crates[j].timestamp > KnownAt(crates[j].path)
    /\ \E r \in Roots :
          fs[r].ok /\ \E k \in 1..Len(fs[r].files) : fs[r].files[k].kind.tag # "File"

====
